---- MODULE Spec2Model ----
(***************************************************************************)
(* Model of the two maintenance scripts of csc-docs:                       *)
(*   scripts/sync-changelog.js       (GitHub releases -> changelog.mdx)    *)
(*   scripts/update-database-stats.js (README statistics -> overview.mdx)  *)
(* Text is a sequence of one-character strings, so that split, trim,       *)
(* toLowerCase and includes are computed as the scripts compute them.      *)
(***************************************************************************)
EXTENDS Integers, Sequences, FiniteSets, TLC

VARIABLES
    pc,            \* position of the running script
    exitCode,      \* process exit code, -1 while the process runs
    ops,           \* network and file-system operations issued so far in this run
    error,         \* the error caught by the script's try/catch, or "none"
    atStart,       \* the files as they were when this run started
    runs,          \* number of runs of the script started so far
    body,          \* parseReleaseBody: the release body handed in
    parsed,        \* parseReleaseBody: the value returned
    GITHUB_TOKEN,  \* process.env.GITHUB_TOKEN is set
    remote,        \* the release list GitHub serves
    releases,      \* the release list fetched by this run
    changelog,     \* content of changelog.mdx, or Absent
    backup,        \* content of changelog.mdx.backup, or Absent
    readme,        \* the README text GitHub serves
    stats,         \* the StatRecord parsed by this run
    overview,      \* content of database/overview.mdx
    content,       \* updateOverviewFile: the local variable content
    updated,       \* updateOverviewFile: the local variable updated
    today          \* the current date, [day, month, year]

vars == <<pc, exitCode, ops, error, atStart, runs, body, parsed, GITHUB_TOKEN, remote, releases,
          changelog, backup, readme, stats, overview, content, updated, today>>

vCtl == <<pc, exitCode, ops, error, atStart, runs>>
vParse == <<body, parsed>>
vChangelog == <<GITHUB_TOKEN, remote, releases, changelog, backup>>
vOverview == <<readme, stats, overview, content, updated, today>>

(***************************************************************************)
(* Bounds                                                                  *)
(***************************************************************************)
MaxLines == 3
MaxReleases == 3
MaxDay == 3
DaysPerYear == 2
MaxRuns == 2
MaxPieces == 2
MaxStates == 2000

(***************************************************************************)
(* JavaScript string primitives                                            *)
(***************************************************************************)
\* null / undefined, as a value no text is equal to
Null == <<"null">>

\* the keys of a StatRecord, and the record with every field null; a field
\* that is null is written -1
Fields == {"regions", "subregions", "countries", "states", "cities"}
NoStats == [f \in Fields |-> -1]

\* a file that does not exist, as a value no document is equal to
Absent == <<[kind |-> "absent"]>>

Range(s) == {s[i] : i \in 1..Len(s)}

Whitespace == {" ", "\t", "\r", "\n"}

LowerCaseOf ==
    [c \in {"A", "B", "C", "D", "E", "F", "G", "H", "I", "J", "K", "L", "M",
            "N", "O", "P", "Q", "R", "S", "T", "U", "V", "W", "X", "Y", "Z"} |->
        CASE c = "A" -> "a" [] c = "B" -> "b" [] c = "C" -> "c" [] c = "D" -> "d"
          [] c = "E" -> "e" [] c = "F" -> "f" [] c = "G" -> "g" [] c = "H" -> "h"
          [] c = "I" -> "i" [] c = "J" -> "j" [] c = "K" -> "k" [] c = "L" -> "l"
          [] c = "M" -> "m" [] c = "N" -> "n" [] c = "O" -> "o" [] c = "P" -> "p"
          [] c = "Q" -> "q" [] c = "R" -> "r" [] c = "S" -> "s" [] c = "T" -> "t"
          [] c = "U" -> "u" [] c = "V" -> "v" [] c = "W" -> "w" [] c = "X" -> "x"
          [] c = "Y" -> "y" [] c = "Z" -> "z"]

\* String.prototype.toLowerCase
toLowerCase(s) ==
    [i \in 1..Len(s) |-> IF s[i] \in DOMAIN LowerCaseOf THEN LowerCaseOf[s[i]] ELSE s[i]]

\* String.prototype.startsWith
startsWith(s, p) == Len(s) >= Len(p) /\ SubSeq(s, 1, Len(p)) = p

\* String.prototype.includes
includes(s, p) == \E i \in 1..(Len(s) - Len(p) + 1) : SubSeq(s, i, i + Len(p) - 1) = p

\* String.prototype.substring(n)
substring(s, n) == SubSeq(s, n + 1, Len(s))

\* String.prototype.trim
trim(s) ==
    LET keep == {i \in 1..Len(s) : s[i] \notin Whitespace}
    IN  IF keep = {} THEN <<>>
        ELSE SubSeq(s, CHOOSE i \in keep : \A j \in keep : i <= j,
                       CHOOSE i \in keep : \A j \in keep : i >= j)

\* String.prototype.split('\n')
RECURSIVE split(_)
split(s) ==
    LET at == {i \in 1..Len(s) : s[i] = "\n"}
    IN  IF at = {} THEN <<s>>
        ELSE LET i == CHOOSE k \in at : \A j \in at : k <= j
             IN  <<SubSeq(s, 1, i - 1)>> \o split(SubSeq(s, i + 1, Len(s)))

\* Array.prototype.join('\n'): how a body is put together from its lines
RECURSIVE join(_)
join(ls) ==
    IF ls = <<>> THEN <<>>
    ELSE IF Len(ls) = 1 THEN ls[1]
    ELSE ls[1] \o <<"\n">> \o join(Tail(ls))

(***************************************************************************)
(* parseReleaseBody (sync-changelog.js)                                    *)
(***************************************************************************)
\* body.split('\n').map(line => line.trim()).filter(line => line)
bodyLines(b) ==
    LET raw == split(b)
        trimmed == [i \in 1..Len(raw) |-> trim(raw[i])]
    IN  SelectSeq(trimmed, LAMBDA l : l # <<>>)

\* the breaking-change test on the whole body
isBreakingCaseSensitive(b) ==
    \/ includes(b, <<"b","r","e","a","k","i","n","g"," ","c","h","a","n","g","e">>)
    \/ includes(b, <<"!","!","b","r","e","a","k","i","n","g">>)
isBreaking(b) ==
    \/ includes(toLowerCase(b), <<"b","r","e","a","k","i","n","g"," ","c","h","a","n","g","e">>)
    \/ includes(toLowerCase(b), <<"!","!","b","r","e","a","k","i","n","g">>)

\* line.startsWith('* ') || line.startsWith('- ')
isBulletStarOnly(line) == startsWith(line, <<"*", " ">>)
isBullet(line) == startsWith(line, <<"*", " ">>) \/ startsWith(line, <<"-", " ">>)

\* line.substring(2).trim()
bulletItem(line) == trim(substring(line, 2))

\* the contributor-line skip
isContributorLine(item) ==
    \/ includes(item, <<"m","a","d","e"," ","t","h","e","i","r"," ","f","i","r","s","t"," ",
                        "c","o","n","t","r","i","b","u","t","i","o","n">>)
    \/ (includes(item, <<"@">>) /\ includes(item, <<"i","n"," ","#">>))
    \/ includes(item, <<"F","u","l","l"," ","C","h","a","n","g","e","l","o","g">>)

\* the keyword cascade over item.toLowerCase()
categoryFeatureFirst(lowerItem) ==
    IF \/ includes(lowerItem, <<"a","d","d">>)
       \/ includes(lowerItem, <<"n","e","w">>)
       \/ includes(lowerItem, <<"s","u","p","p","o","r","t">>)
    THEN "features"
    ELSE IF \/ includes(lowerItem, <<"f","i","x">>)
            \/ includes(lowerItem, <<"r","e","s","o","l","v","e">>)
            \/ includes(lowerItem, <<"s","o","l","v","e","d">>)
    THEN "fixes"
    ELSE "improvements"
category(lowerItem) ==
    IF \/ includes(lowerItem, <<"f","i","x">>)
       \/ includes(lowerItem, <<"r","e","s","o","l","v","e">>)
       \/ includes(lowerItem, <<"s","o","l","v","e","d">>)
    THEN "fixes"
    ELSE IF \/ includes(lowerItem, <<"a","d","d">>)
            \/ includes(lowerItem, <<"n","e","w">>)
            \/ (/\ includes(lowerItem, <<"s","u","p","p","o","r","t">>)
                /\ ~includes(lowerItem, <<"f","i","x">>))
    THEN "features"
    ELSE "improvements"

EmptyParse == [features |-> <<>>, improvements |-> <<>>, fixes |-> <<>>, breaking |-> FALSE]

\* the for loop over lines
RECURSIVE categorize(_, _)
categorize(lines, acc) ==
    IF lines = <<>> THEN acc
    ELSE LET line == Head(lines)
             item == bulletItem(line)
         IN  IF ~isBullet(line) THEN categorize(Tail(lines), acc)
             ELSE IF isContributorLine(item) THEN categorize(Tail(lines), acc)
             ELSE LET cat == category(toLowerCase(item))
                  IN  categorize(Tail(lines), [acc EXCEPT ![cat] = Append(@, item)])

parseReleaseBody(b) ==
    IF b = Null \/ b = <<>> THEN EmptyParse
    ELSE categorize(bodyLines(b), [EmptyParse EXCEPT !.breaking = isBreaking(b)])

(***************************************************************************)
(* Release bodies: up to MaxLines raw lines joined by "\n", or no body     *)
(***************************************************************************)
LineSet == {
    <<"*"," ","A","d","d","e","d"," ","n","e","w"," ","e","n","d","p","o","i","n","t">>,
    <<"*"," ","F","i","x","e","d"," ","n","u","l","l"," ","p","o","i","n","t","e","r"," ","b","u","g">>,
    <<"*"," ","@","b","o","b"," ","m","a","d","e"," ","t","h","e","i","r"," ","f","i","r","s","t"," ",
      "c","o","n","t","r","i","b","u","t","i","o","n"," ","i","n"," ","#","4","2">>,
    <<"-"," ","A","d","d"," ","s","u","p","p","o","r","t"," ","f","o","r"," ","p","r","e","f","i","x">>,
    <<"-"," ","U","p","d","a","t","e","d"," ","d","o","c","s">>,
    <<" "," ","*"," "," ","S","u","p","p","o","r","t","s"," ","I","D","s"," ">>,
    <<"*","*","F","u","l","l"," ","C","h","a","n","g","e","l","o","g","*","*",":"," ","v","1",".",".",".","v","2">>,
    <<"-"," ","B","r","e","a","k","i","n","g"," ","C","h","a","n","g","e"," ","b","y"," ","@","x"," ",
      "i","n"," ","#","5">>,
    <<"-"," ","f","u","l","l"," ","c","h","a","n","g","e","l","o","g"," ","t","i","d","y">>,
    <<"*"," ","F","u","l","l"," ","C","h","a","n","g","e","l","o","g",":"," ","x">>,
    <<"*"," ","R","e","s","o","l","v","e","d"," ","c","r","a","s","h">>,
    <<"!","!","B","R","E","A","K","I","N","G",":"," ","s","c","h","e","m","a"," ","c","h","a","n","g","e","d">>,
    <<"-"," ","B","R","E","A","K","I","N","G"," ","C","H","A","N","G","E",":"," ","d","r","o","p"," ","v","1">>,
    <<>> }

SeqsUpTo(S, n) == UNION {[1..k -> S] : k \in 0..n}

Bodies == {Null} \cup {join(ls) : ls \in SeqsUpTo(LineSet, MaxLines)}

NotParsed == [EmptyParse EXCEPT !.breaking = Null]

InitParse ==
    /\ pc = "parse" /\ exitCode = -1 /\ ops = <<>> /\ runs = 0
    /\ error = "none" /\ atStart = [changelog |-> Absent, backup |-> Absent]
    /\ body \in Bodies
    /\ parsed = NotParsed
    /\ GITHUB_TOKEN = FALSE /\ remote = <<>> /\ releases = <<>>
    /\ changelog = Absent /\ backup = Absent
    /\ readme = <<>> /\ stats = NoStats /\ overview = <<>> /\ today = Null
    /\ content = <<>> /\ updated = FALSE

\* a call of parseReleaseBody(body, tagName)
ParseReleaseBody ==
    /\ pc = "parse"
    /\ parsed' = parseReleaseBody(body)
    /\ pc' = "parsed"
    /\ UNCHANGED <<exitCode, ops, error, atStart, runs, body, vChangelog, vOverview>>

NextParse == ParseReleaseBody

SpecParse == InitParse /\ [][NextParse]_vars

(***************************************************************************)
(* Claims about parseReleaseBody, stated over the body handed in           *)
(***************************************************************************)
Categories == {"features", "improvements", "fixes"}

\* the trimmed, non-blank lines of a body
TrimmedLinesOf(b) ==
    IF b = Null THEN <<>>
    ELSE LET raw == split(b)
         IN  SelectSeq([i \in 1..Len(raw) |-> trim(raw[i])], LAMBDA l : l # <<>>)

StartsWithMarker(l) == Len(l) >= 2 /\ l[1] \in {"*", "-"} /\ l[2] = " "

\* the bullet items of a body, marker stripped, in body order
BulletItemsOf(b) ==
    LET bullets == SelectSeq(TrimmedLinesOf(b), StartsWithMarker)
    IN  [i \in 1..Len(bullets) |-> trim(SubSeq(bullets[i], 3, Len(bullets[i])))]

HasAny(s, kws) == \E k \in kws : includes(s, k)

FixKeywords == {<<"f","i","x">>, <<"r","e","s","o","l","v","e">>, <<"s","o","l","v","e","d">>}
FeatureKeywords == {<<"a","d","d">>, <<"n","e","w">>, <<"s","u","p","p","o","r","t">>}

RuleDiscards(item) ==
    \/ includes(item, <<"m","a","d","e"," ","t","h","e","i","r"," ","f","i","r","s","t"," ",
                        "c","o","n","t","r","i","b","u","t","i","o","n">>)
    \/ (includes(item, <<"@">>) /\ includes(item, <<"i","n"," ","#">>))
    \/ includes(item, <<"F","u","l","l"," ","C","h","a","n","g","e","l","o","g">>)

\* the ordered rule list of the claim, first match wins
RuleFate(item) ==
    IF RuleDiscards(item) THEN "discarded"
    ELSE IF HasAny(toLowerCase(item), FixKeywords) THEN "fixes"
    ELSE IF HasAny(toLowerCase(item), FeatureKeywords) THEN "features"
    ELSE "improvements"

\* C1: every bullet item of the body appears in a category exactly when the
\* ordered rule list (discard, then fix, then feature, then improvement)
\* assigns it that category; a discarded item appears in none; an item with
\* both a fix keyword and a feature keyword is a fix.
C1_FirstMatchWins ==
    pc = "parsed" =>
        LET bulletItems == BulletItemsOf(body)
        IN  \A i \in 1..Len(bulletItems) :
            LET item == bulletItems[i]
            IN  /\ \A cat \in Categories :
                       (item \in Range(parsed[cat])) <=> (RuleFate(item) = cat)
                /\ (HasAny(toLowerCase(item), FixKeywords)
                      /\ HasAny(toLowerCase(item), FeatureKeywords)
                      /\ ~RuleDiscards(item))
                     => item \in Range(parsed.fixes)

\* a parsed body holding a kept item with both a fix and a feature keyword,
\* a discarded item and a feature
C1_Witness ==
    /\ pc = "parsed"
    /\ \E i, j, k \in 1..Len(BulletItemsOf(body)) :
          LET it == BulletItemsOf(body)
          IN  /\ HasAny(toLowerCase(it[i]), FixKeywords)
              /\ HasAny(toLowerCase(it[i]), FeatureKeywords)
              /\ it[i] \in Range(parsed.fixes)
              /\ RuleDiscards(it[j])
              /\ it[k] \in Range(parsed.features)

RECURSIVE IsSubseq(_, _)
IsSubseq(a, b) ==
    IF a = <<>> THEN TRUE
    ELSE IF b = <<>> THEN FALSE
    ELSE IF Head(a) = Head(b) THEN IsSubseq(Tail(a), Tail(b))
    ELSE IsSubseq(a, Tail(b))

\* the non-discarded bullet items, in body order
KeptItemsOf(b) == SelectSeq(BulletItemsOf(b), LAMBDA it : ~RuleDiscards(it))

\* C2: the three sequences partition the non-discarded bullet items: each
\* sequence lists items in body order, no item text sits in two sequences,
\* together they hold every kept item once per occurrence, and nothing else
\* (no non-bullet line, no discarded bullet) appears in any of them.
C2_Partition ==
    pc = "parsed" =>
        LET kept == KeptItemsOf(body)
        IN  /\ \A cat \in Categories : IsSubseq(parsed[cat], kept)
            /\ \A c1, c2 \in Categories :
                   c1 # c2 => Range(parsed[c1]) \cap Range(parsed[c2]) = {}
            /\ Len(parsed.features) + Len(parsed.improvements) + Len(parsed.fixes)
                   = Len(kept)
            /\ UNION {Range(parsed[cat]) : cat \in Categories} = Range(kept)

\* two different features in body order next to a fix
C2_Witness ==
    /\ pc = "parsed"
    /\ Len(parsed.features) = 2
    /\ parsed.features[1] # parsed.features[2]
    /\ Len(parsed.fixes) = 1
    /\ KeptItemsOf(body) \in {<<parsed.features[1], parsed.fixes[1], parsed.features[2]>>,
                              <<parsed.fixes[1], parsed.features[1], parsed.features[2]>>}

\* text holds the phrase (given in lower case) when case is ignored
ContainsIgnoringCase(text, phrase) ==
    \E i \in 1..(Len(text) - Len(phrase) + 1) :
        \A k \in 1..Len(phrase) :
            LET c == text[i + k - 1]
            IN  (IF c \in DOMAIN LowerCaseOf THEN LowerCaseOf[c] ELSE c) = phrase[k]

MentionsBreaking(b) ==
    /\ b # Null
    /\ \/ ContainsIgnoringCase(b, <<"b","r","e","a","k","i","n","g"," ","c","h","a","n","g","e">>)
       \/ ContainsIgnoringCase(b, <<"!","!","b","r","e","a","k","i","n","g">>)

\* C13: the breaking flag is true exactly when the whole body, case
\* ignored, holds "breaking change" or "!!breaking", wherever the text sits
\* and whatever becomes of the bullets; an absent or empty body gives a
\* false flag and three empty sequences.
C13_BreakingFromWholeBody ==
    pc = "parsed" =>
        /\ parsed.breaking = MentionsBreaking(body)
        /\ (body = Null \/ body = <<>>) =>
               parsed = [features |-> <<>>, improvements |-> <<>>, fixes |-> <<>>,
                         breaking |-> FALSE]

\* the only line of the body is a discarded bullet that mentions a breaking
\* change in mixed case: the flag is set and no item was kept
C13_Witness ==
    /\ pc = "parsed"
    /\ parsed.breaking = TRUE
    /\ Len(TrimmedLinesOf(body)) = 1
    /\ Len(BulletItemsOf(body)) = 1
    /\ RuleDiscards(BulletItemsOf(body)[1])
    /\ parsed.features = <<>> /\ parsed.improvements = <<>> /\ parsed.fixes = <<>>

(***************************************************************************)
(* The changelog renderer (sync-changelog.js)                              *)
(* A release is [tag_name, published_at, body]; published_at counts days   *)
(* since 1 January 1970 in a calendar of DaysPerYear days a year.          *)
(* A document is a sequence of lines, each a record tagged by its kind.    *)
(***************************************************************************)
SliceLimit == 8

\* new Date(published_at).getFullYear()
getFullYear(published_at) == 1970 + (published_at \div DaysPerYear)

\* formatDate: the day of the timestamp, as "<Month> <day>, <year>"
formatDate(published_at) ==
    [year |-> getFullYear(published_at), dayOfYear |-> published_at % DaysPerYear]

\* Array.prototype.slice(0, n)
sliceWhole(s, n) == s
slice(s, n) == SubSeq(s, 1, IF Len(s) < n THEN Len(s) ELSE n)

DefaultBreakingDesc == <<"This release contains breaking changes.">>

\* release.body.match(/BREAKING CHANGE[:\s]*(.*?)$/im), group 1 trimmed
breakingDesc(b) ==
    LET marker == <<"b","r","e","a","k","i","n","g"," ","c","h","a","n","g","e">>
        lower == toLowerCase(b)
        at == {i \in 1..(Len(b) - Len(marker) + 1) : SubSeq(lower, i, i + Len(marker) - 1) = marker}
    IN  IF at = {} THEN DefaultBreakingDesc
        ELSE LET i == CHOOSE k \in at : \A j \in at : k <= j
                 after == i + Len(marker)
                 rest == {k \in after..Len(b) : b[k] \notin (Whitespace \cup {":"})}
                 from == IF rest = {} THEN Len(b) + 1
                         ELSE CHOOSE k \in rest : \A j \in rest : k <= j
                 ends == {k \in from..Len(b) : b[k] \in {"\n", "\r"}}
                 to == IF ends = {} THEN Len(b) + 1
                       ELSE CHOOSE k \in ends : \A j \in ends : k <= j
             IN  trim(SubSeq(b, from, to - 1))

\* one "## <heading>" section of an update block, absent when the list is empty
section(heading, items) ==
    IF Len(items) > 0
    THEN <<[kind |-> "heading", heading |-> heading]>>
         \o [i \in 1..Len(slice(items, SliceLimit)) |->
                [kind |-> "item", item |-> slice(items, SliceLimit)[i]]]
         \o <<[kind |-> "blank"]>>
    ELSE <<>>

generateUpdateComponent(release) ==
    LET p == parseReleaseBody(release.body)
    IN  <<[kind |-> "update", label |-> release.tag_name,
           description |-> formatDate(release.published_at)]>>
        \o (IF p.breaking
            THEN <<[kind |-> "warning", warning |-> breakingDesc(release.body)],
                   [kind |-> "blank"]>>
            ELSE <<>>)
        \o section("New Features", p.features)
        \o section("Improvements", p.improvements)
        \o section("Bug Fixes", p.fixes)
        \o <<[kind |-> "endUpdate"]>>

\* releasesByYear[year], in input order
releasesOfYear(rels, year) ==
    SelectSeq(rels, LAMBDA r : getFullYear(r.published_at) = year)

\* Object.keys(releasesByYear).sort((a, b) => b - a)
RECURSIVE sortYearsDesc(_)
sortYearsDesc(ys) ==
    IF ys = {} THEN <<>>
    ELSE LET top == CHOOSE y \in ys : \A z \in ys : y >= z
         IN  <<top>> \o sortYearsDesc(ys \ {top})

\* the comparator of the per-year sort: a negative result puts a before b
compareAscending(a, b) == a.published_at - b.published_at
compareByDate(a, b) == b.published_at - a.published_at

\* Array.prototype.sort with compareByDate (stable)
RECURSIVE insertSorted(_, _)
insertSorted(sorted, r) ==
    IF sorted = <<>> THEN <<r>>
    ELSE IF compareByDate(Head(sorted), r) <= 0
         THEN <<Head(sorted)>> \o insertSorted(Tail(sorted), r)
         ELSE <<r>> \o sorted

RECURSIVE sortByDate(_)
sortByDate(rels) ==
    IF rels = <<>> THEN <<>>
    ELSE insertSorted(sortByDate(SubSeq(rels, 1, Len(rels) - 1)), rels[Len(rels)])

RECURSIVE renderReleases(_)
renderReleases(rels) ==
    IF rels = <<>> THEN <<>>
    ELSE generateUpdateComponent(Head(rels)) \o <<[kind |-> "blank"]>>
         \o renderReleases(Tail(rels))

RECURSIVE renderYears(_, _)
renderYears(years, rels) ==
    IF years = <<>> THEN <<>>
    ELSE <<[kind |-> "year", year |-> Head(years)], [kind |-> "blank"]>>
         \o renderReleases(sortByDate(releasesOfYear(rels, Head(years))))
         \o renderYears(Tail(years), rels)

generateChangelogContent(rels) ==
    <<[kind |-> "frontMatter"]>>
    \o renderYears(sortYearsDesc({getFullYear(rels[i].published_at) : i \in 1..Len(rels)}), rels)
    \o <<[kind |-> "footer"]>>

(***************************************************************************)
(* The changelog pipeline: the script's top level and syncChangelog        *)
(***************************************************************************)
\* the bodies of the releases GitHub serves, one per tag
BodyOfTag(t) ==
    CASE t = 1 ->
           <<"*"," ","A","d","d","e","d"," ","n","e","w"," ","e","n","d","p","o","i","n","t","\n",
             "-"," ","F","i","x","e","d"," ","n","u","l","l"," ","p","o","i","n","t","e","r"," ","b","u","g","\n",
             "B","R","E","A","K","I","N","G"," ","C","H","A","N","G","E",":"," ","d","r","o","p"," ","v","1"," ","i","d","s","\n",
             "*"," ","@","b","o","b"," ","m","a","d","e"," ","t","h","e","i","r"," ","f","i","r","s","t"," ",
             "c","o","n","t","r","i","b","u","t","i","o","n"," ","i","n"," ","#","4","2">>
      [] t = 2 -> Null
      [] t = 3 ->
           <<"*"," ","A","d","d"," ","a","\n","*"," ","A","d","d"," ","b","\n","*"," ","A","d","d"," ","c","\n",
             "*"," ","A","d","d"," ","d","\n","*"," ","A","d","d"," ","e","\n","*"," ","A","d","d"," ","f","\n",
             "*"," ","A","d","d"," ","g","\n","*"," ","A","d","d"," ","h","\n","*"," ","A","d","d"," ","i","\n",
             "-"," ","F","i","x"," ","j">>
      [] OTHER ->
           <<"#","#"," ","N","o","t","e","s","\n","-"," ","U","p","d","a","t","e","d"," ","d","o","c","s","\n",
             "!","!","b","r","e","a","k","i","n","g">>

\* release lists: the i-th release carries tag i, published on any day
ReleaseLists ==
    UNION {{[i \in 1..n |-> [tag_name |-> i, published_at |-> days[i], body |-> BodyOfTag(i)]]
              : days \in [1..n -> 0..MaxDay]} : n \in 0..MaxReleases}

\* a changelog.mdx written by hand, and a backup left by an earlier run
OldChangelog == <<[kind |-> "frontMatter"], [kind |-> "handWritten"]>>
StaleBackup == <<[kind |-> "stale"]>>

FetchErrors == {"connection", "status", "json"}

Init ==
    /\ pc = "start" /\ exitCode = -1 /\ ops = <<>> /\ runs = 1 /\ error = "none"
    /\ GITHUB_TOKEN \in BOOLEAN
    /\ remote \in ReleaseLists
    /\ releases = <<>>
    /\ changelog \in {Absent, OldChangelog}
    /\ backup \in {Absent, StaleBackup}
    /\ atStart = [changelog |-> changelog, backup |-> backup]
    /\ body = <<>> /\ parsed = NotParsed
    /\ readme = <<>> /\ stats = NoStats /\ overview = <<>> /\ today = Null
    /\ content = <<>> /\ updated = FALSE

\* lines 17-23: the credential check at load time
CheckTokenNoExit ==
    /\ pc = "start"
    /\ pc' = "main"
    /\ UNCHANGED <<exitCode, ops, error, atStart, runs, vParse, vChangelog, vOverview>>
CheckToken ==
    /\ pc = "start"
    /\ IF ~GITHUB_TOKEN
       THEN pc' = "exited" /\ exitCode' = 1
       ELSE pc' = "main" /\ UNCHANGED exitCode
    /\ UNCHANGED <<ops, error, atStart, runs, vParse, vChangelog, vOverview>>

\* lines 316-324, 274-277 and 28-66: the rest of the top level, then
\* syncChangelog up to its await, with the request sent
StartSync ==
    /\ pc = "main"
    /\ ops' = ops \o <<"existsSync scriptsDir", "request">>
    /\ pc' = "awaiting"
    /\ UNCHANGED <<exitCode, error, atStart, runs, vParse, vChangelog, vOverview>>

\* lines 48-51: status 200 and a body that parses
FetchResolve ==
    /\ pc = "awaiting"
    /\ releases' = remote
    /\ pc' = "backup"
    /\ UNCHANGED <<exitCode, ops, error, atStart, runs, vParse, GITHUB_TOKEN, remote,
                   changelog, backup, vOverview>>

\* lines 52-63: a connection error, another status, or a body that does not parse
FetchRejectRetry ==
    /\ pc = "awaiting"
    /\ \E reason \in FetchErrors : error' = reason
    /\ ops' = Append(ops, "request")
    /\ pc' = "catch"
    /\ UNCHANGED <<exitCode, atStart, runs, vParse, vChangelog, vOverview>>
FetchReject ==
    /\ pc = "awaiting"
    /\ \E reason \in FetchErrors : error' = reason
    /\ pc' = "catch"
    /\ UNCHANGED <<exitCode, ops, atStart, runs, vParse, vChangelog, vOverview>>

\* fs.copyFileSync(src, dest): the content dest holds afterwards
copyFileSyncSkipped(src, dest) == dest
copyFileSync(src, dest) == src

\* lines 281-286: the backup
Backup ==
    /\ pc = "backup"
    /\ IF changelog # Absent
       THEN /\ backup' = copyFileSync(changelog, backup)
            /\ ops' = ops \o <<"existsSync", "copyFileSync">>
       ELSE /\ ops' = Append(ops, "existsSync")
            /\ UNCHANGED backup
    /\ pc' = "write"
    /\ UNCHANGED <<exitCode, error, atStart, runs, vParse, GITHUB_TOKEN, remote, releases,
                   changelog, vOverview>>

\* line 284 throwing
BackupThrows ==
    /\ pc = "backup"
    /\ changelog # Absent
    /\ ops' = ops \o <<"existsSync", "copyFileSync">>
    /\ error' = "copy"
    /\ pc' = "catch"
    /\ UNCHANGED <<exitCode, atStart, runs, vParse, vChangelog, vOverview>>

\* lines 288-302: render, write, report; the process then ends with code 0
WriteMerging ==
    /\ pc = "write"
    /\ changelog' = IF changelog = Absent THEN generateChangelogContent(releases)
                    ELSE changelog \o generateChangelogContent(releases)
    /\ ops' = Append(ops, "writeFileSync")
    /\ pc' = "exited"
    /\ exitCode' = 0
    /\ UNCHANGED <<error, atStart, runs, vParse, GITHUB_TOKEN, remote, releases, backup,
                   vOverview>>
Write ==
    /\ pc = "write"
    /\ changelog' = generateChangelogContent(releases)
    /\ ops' = Append(ops, "writeFileSync")
    /\ pc' = "exited"
    /\ exitCode' = 0
    /\ UNCHANGED <<error, atStart, runs, vParse, GITHUB_TOKEN, remote, releases, backup,
                   vOverview>>

\* line 292 throwing
WriteThrows ==
    /\ pc = "write"
    /\ ops' = Append(ops, "writeFileSync")
    /\ error' = "write"
    /\ pc' = "catch"
    /\ UNCHANGED <<exitCode, atStart, runs, vParse, vChangelog, vOverview>>

\* lines 304-312: the catch clause
Catch ==
    /\ pc = "catch"
    /\ exitCode' = 1
    /\ pc' = "exited"
    /\ UNCHANGED <<ops, error, atStart, runs, vParse, vChangelog, vOverview>>

\* the operator runs the script again
Rerun ==
    /\ pc = "exited"
    /\ runs < MaxRuns
    /\ runs' = runs + 1
    /\ pc' = "start" /\ exitCode' = -1 /\ ops' = <<>> /\ error' = "none"
    /\ releases' = <<>>
    /\ atStart' = [changelog |-> changelog, backup |-> backup]
    /\ UNCHANGED <<vParse, GITHUB_TOKEN, remote, changelog, backup, vOverview>>

Next ==
    \/ CheckToken
    \/ StartSync
    \/ FetchResolve
    \/ FetchReject
    \/ Backup
    \/ BackupThrows
    \/ Write
    \/ WriteThrows
    \/ Catch
    \/ Rerun

Spec == Init /\ [][Next]_vars

(***************************************************************************)
(* Claims about the changelog renderer and pipeline                        *)
(***************************************************************************)
\* a run that ended by writing changelog.mdx
Synced == pc = "exited" /\ exitCode = 0

\* the positions of the lines of one kind in a document
LinesOfKind(doc, k) == {i \in 1..Len(doc) : doc[i].kind = k}

\* the year heading an update block stands under: the last one before it
HeadingOver(doc, i) ==
    LET before == {j \in LinesOfKind(doc, "year") : j < i}
    IN  IF before = {} THEN 0
        ELSE doc[CHOOSE j \in before : \A k \in before : j >= k].year

ReleaseTagged(t) == CHOOSE r \in Range(releases) : r.tag_name = t

\* C3: the changelog holds one year heading per distinct publish year, in
\* descending order; every fetched release has exactly one update block,
\* under the heading of its own year; within a year the blocks are in
\* descending publish order, whatever the order of the fetched list.
C3_YearGrouping ==
    Synced =>
        LET doc == changelog
            yearAt == LinesOfKind(doc, "year")
            updateAt == LinesOfKind(doc, "update")
        IN  /\ {doc[i].year : i \in yearAt}
                   = {getFullYear(releases[r].published_at) : r \in 1..Len(releases)}
            /\ \A i, j \in yearAt : i < j => doc[i].year > doc[j].year
            /\ \A r \in 1..Len(releases) :
                   Cardinality({i \in updateAt : doc[i].label = releases[r].tag_name}) = 1
            /\ Cardinality(updateAt) = Len(releases)
            /\ \A i \in updateAt :
                   HeadingOver(doc, i) = getFullYear(ReleaseTagged(doc[i].label).published_at)
            /\ \A i, j \in updateAt :
                   (i < j /\ HeadingOver(doc, i) = HeadingOver(doc, j))
                     => ReleaseTagged(doc[i].label).published_at
                          >= ReleaseTagged(doc[j].label).published_at

\* three releases over two years were rendered, two of one year fetched
\* oldest first
C3_Witness ==
    /\ Synced
    /\ Len(releases) = 3
    /\ Cardinality(LinesOfKind(changelog, "year")) = 2
    /\ \E a, b \in 1..3 :
          /\ a < b
          /\ getFullYear(releases[a].published_at) = getFullYear(releases[b].published_at)
          /\ releases[a].published_at < releases[b].published_at

\* the step that overwrites an existing changelog.mdx
OverwritesExisting ==
    /\ changelog # Absent
    /\ ops' = Append(ops, "writeFileSync")

CopyAfterWrite ==
    \E i, j \in 1..Len(ops) : i < j /\ ops[i] = "writeFileSync" /\ ops[j] = "copyFileSync"

\* C4: whenever a run overwrites an existing changelog.mdx, the copy to the
\* .backup sibling was issued earlier in that run and the backup holds, at
\* the moment of the write, what changelog.mdx held just before it; no run
\* copies after it has written.
C4_BackupBeforeWrite ==
    /\ [][OverwritesExisting =>
            /\ backup = changelog
            /\ \E i \in 1..Len(ops) : ops[i] = "copyFileSync"
            /\ backup' = backup]_vars
    /\ [](~CopyAfterWrite)

\* a second run replaced the stale backup by the first run's changelog and
\* then wrote
C4_Witness ==
    /\ Synced
    /\ runs = 2
    /\ atStart.changelog \notin {Absent, OldChangelog}
    /\ atStart.backup \in {StaleBackup, OldChangelog}
    /\ backup = atStart.changelog
    /\ ops = <<"existsSync scriptsDir", "request", "existsSync", "copyFileSync",
               "writeFileSync">>

FilesUntouched ==
    /\ changelog = atStart.changelog
    /\ backup = atStart.backup
    /\ \A i \in 1..Len(ops) : ops[i] \notin {"copyFileSync", "writeFileSync"}

\* C5: when the fetch fails (connection error, status other than 200, or a
\* body that is not JSON) the run ends with exit code 1 after exactly one
\* request, and changelog.mdx and its .backup are as they were when the run
\* started.
C5_FetchFailureAborts ==
    error \in FetchErrors =>
        /\ pc \in {"catch", "exited"}
        /\ pc = "exited" => exitCode = 1
        /\ Cardinality({i \in 1..Len(ops) : ops[i] = "request"}) = 1
        /\ FilesUntouched

\* a run over an existing changelog.mdx ended on a body that did not parse
C5_Witness ==
    /\ pc = "exited" /\ exitCode = 1
    /\ error = "json"
    /\ atStart.changelog = OldChangelog
    /\ changelog = OldChangelog /\ backup = Absent

\* C6: without GITHUB_TOKEN the script ends with exit code 1 before any
\* request and before any file is read, copied or written.
C6_MissingTokenExits ==
    ~GITHUB_TOKEN =>
        /\ pc \in {"start", "exited"}
        /\ pc = "exited" => exitCode = 1
        /\ ops = <<>>
        /\ FilesUntouched

\* the script was started without the credential and has ended
C6_Witness ==
    /\ ~GITHUB_TOKEN
    /\ pc = "exited" /\ exitCode = 1
    /\ ops = <<>>
    /\ changelog = OldChangelog

\* the lines of the update block of a release, from its opening to its
\* closing line
BlockOf(doc, tag) ==
    LET open == CHOOSE i \in LinesOfKind(doc, "update") : doc[i].label = tag
        ends == {j \in open..Len(doc) : doc[j].kind = "endUpdate"}
    IN  SubSeq(doc, open, CHOOSE j \in ends : \A k \in ends : j <= k)

HeadingOf(cat) ==
    CASE cat = "features" -> "New Features"
      [] cat = "improvements" -> "Improvements"
      [] cat = "fixes" -> "Bug Fixes"

HeadingsAt(block, heading) ==
    {i \in 1..Len(block) : block[i].kind = "heading" /\ block[i].heading = heading}

\* the items listed directly under the heading at line h of a block
ItemsUnder(block, h) ==
    LET stop == {j \in (h + 1)..Len(block) : block[j].kind # "item"}
        end == CHOOSE j \in stop : \A k \in stop : j <= k
    IN  [k \in 1..(end - h - 1) |-> block[h + k].item]

\* the items of a body the rule list puts in a category, in body order
ClassifiedAs(b, cat) == SelectSeq(KeptItemsOf(b), LAMBDA it : RuleFate(it) = cat)

\* C12: in the update block of every release, the heading of a category is
\* there exactly when the category has an item, once, and the items under
\* it are the first min(8, n) items of the category in classified order; an
\* item beyond the eighth is nowhere in the document.
C12_SectionsCappedAtEight ==
    Synced =>
        \A r \in 1..Len(releases) :
            LET block == BlockOf(changelog, releases[r].tag_name)
            IN  \A cat \in Categories :
                    LET items == ClassifiedAs(releases[r].body, cat)
                        hs == HeadingsAt(block, HeadingOf(cat))
                    IN  /\ (hs # {}) <=> (Len(items) >= 1)
                        /\ Cardinality(hs) <= 1
                        /\ \A h \in hs :
                               ItemsUnder(block, h)
                                 = SubSeq(items, 1, IF Len(items) < 8 THEN Len(items) ELSE 8)
                        /\ \A k \in 9..Len(items) :
                               \A i \in LinesOfKind(changelog, "item") :
                                   changelog[i].item # items[k]

\* a release with nine features and one fix was rendered with eight items
\* under "New Features", next to a release without a body
C12_Witness ==
    /\ Synced
    /\ \E r, q \in 1..Len(releases) :
          LET block == BlockOf(changelog, releases[r].tag_name)
              empty == BlockOf(changelog, releases[q].tag_name)
          IN  /\ Len(ClassifiedAs(releases[r].body, "features")) = 9
              /\ \E h \in HeadingsAt(block, "New Features") : Len(ItemsUnder(block, h)) = 8
              /\ HeadingsAt(block, "Improvements") = {}
              /\ HeadingsAt(block, "Bug Fixes") # {}
              /\ releases[q].body = Null
              /\ LinesOfKind(empty, "heading") = {}

\* the run started on a changelog.mdx that an earlier run had written
AfterEarlierSync == runs >= 2 /\ atStart.changelog \notin {Absent, OldChangelog}

\* C14: after a successful run changelog.mdx is the rendering of the
\* fetched release list and of nothing else: no line of what the file held
\* before is in it, and a run that follows a successful run on the same
\* release list leaves the content that run wrote.
C14_ContentFromReleasesAlone ==
    Synced =>
        /\ changelog = generateChangelogContent(releases)
        /\ \A i \in 1..Len(changelog) : changelog[i].kind # "handWritten"
        /\ AfterEarlierSync => changelog = atStart.changelog

\* a second run over several releases rewrote what the first run had
\* written over a hand-written file
C14_Witness ==
    /\ Synced
    /\ AfterEarlierSync
    /\ backup = atStart.changelog
    /\ Len(releases) >= 2
    /\ changelog = atStart.changelog
    /\ Cardinality(LinesOfKind(changelog, "update")) = Len(releases)

(***************************************************************************)
(* Regular expressions, as far as the scripts use them.  A pattern is a    *)
(* sequence of elements; MatchSeq gives the position after a match that    *)
(* starts at pos, or -1.  Quantifiers are greedy and an optional group is  *)
(* given up when the rest of the pattern does not match after it.          *)
(***************************************************************************)
Lit(s) == [t |-> "lit", s |-> s]                \* literal text
Grp(p) == [t |-> "grp", p |-> p]                \* (?:p)?
Opt(s) == Grp(<<Lit(s)>>)                       \* s?
Ws(min) == [t |-> "ws", min |-> min]            \* \s* (min 0), \s+ (min 1)
Num == [t |-> "num"]                            \* \d+(?:,\d+)*
Digs == [t |-> "digits"]                        \* \d+
NotLt == [t |-> "notlt"]                        \* [^<]+

Digit == {"0", "1", "2", "3", "4", "5", "6", "7", "8", "9"}

\* the symbols of an overview document that begin with "<"
DivOpen(color) ==
    CASE color = "blue" -> "<div className=\"text-2xl font-bold text-blue-600\">"
      [] color = "green" -> "<div className=\"text-2xl font-bold text-green-600\">"
      [] color = "purple" -> "<div className=\"text-2xl font-bold text-purple-600\">"
      [] color = "orange" -> "<div className=\"text-2xl font-bold text-orange-600\">"
      [] color = "red" -> "<div className=\"text-2xl font-bold text-red-600\">"
DivClose == "</div>"
Colors == {"blue", "green", "purple", "orange", "red"}
LtSymbols == {DivOpen(c) : c \in Colors} \cup {DivClose, "<"}

\* the length of the longest run of symbols of S starting at pos
RunIn(text, pos, S) ==
    LET stop == {i \in pos..Len(text) : text[i] \notin S}
    IN  IF stop = {} THEN Len(text) - pos + 1
        ELSE (CHOOSE i \in stop : \A j \in stop : i <= j) - pos

\* the length of the longest run of symbols outside S starting at pos
RunOut(text, pos, S) ==
    LET stop == {i \in pos..Len(text) : text[i] \in S}
    IN  IF stop = {} THEN Len(text) - pos + 1
        ELSE (CHOOSE i \in stop : \A j \in stop : i <= j) - pos

\* \d+(?:,\d+)* at pos: the position after it, or -1
RECURSIVE NumEnd(_, _)
NumEnd(text, pos) ==
    LET d == RunIn(text, pos, Digit)
        q == pos + d
    IN  IF d = 0 THEN -1
        ELSE IF q + 1 <= Len(text) /\ text[q] = "," /\ text[q + 1] \in Digit
        THEN NumEnd(text, q + 1)
        ELSE q

RECURSIVE MatchSeq(_, _, _)
MatchSeq(text, pos, pat) ==
    IF pat = <<>> THEN pos
    ELSE LET e == Head(pat)
             rest == Tail(pat)
         IN  CASE e.t = "lit" ->
                    IF /\ pos + Len(e.s) - 1 <= Len(text)
                       /\ SubSeq(text, pos, pos + Len(e.s) - 1) = e.s
                    THEN MatchSeq(text, pos + Len(e.s), rest)
                    ELSE -1
               [] e.t = "grp" ->
                    LET taken == MatchSeq(text, pos, e.p \o rest)
                    IN  IF taken # -1 THEN taken ELSE MatchSeq(text, pos, rest)
               [] e.t = "ws" ->
                    LET n == RunIn(text, pos, Whitespace)
                    IN  IF n < e.min THEN -1 ELSE MatchSeq(text, pos + n, rest)
               [] e.t = "num" ->
                    LET q == NumEnd(text, pos)
                    IN  IF q = -1 THEN -1 ELSE MatchSeq(text, q, rest)
               [] e.t = "digits" ->
                    LET n == RunIn(text, pos, Digit)
                    IN  IF n = 0 THEN -1 ELSE MatchSeq(text, pos + n, rest)
               [] e.t = "notlt" ->
                    LET n == RunOut(text, pos, LtSymbols)
                    IN  IF n = 0 THEN -1 ELSE MatchSeq(text, pos + n, rest)

\* the first match of pat in text: [from, to], or from = 0 when there is none
FirstMatch(text, pat) ==
    LET starts == {i \in 1..Len(text) : MatchSeq(text, i, pat) # -1}
    IN  IF starts = {} THEN [from |-> 0, to |-> 0]
        ELSE LET i == CHOOSE k \in starts : \A j \in starts : k <= j
             IN  [from |-> i, to |-> MatchSeq(text, i, pat) - 1]

\* String.prototype.replace(regex, string) with a regex without the g flag
replaceEvery(text, pat, with) ==
    LET RECURSIVE all(_)
        all(t) ==
            LET m == FirstMatch(t, pat)
            IN  IF m.from = 0 THEN t
                ELSE SubSeq(t, 1, m.from - 1) \o with \o all(SubSeq(t, m.to + 1, Len(t)))
    IN  all(text)
replace(text, pat, with) ==
    LET m == FirstMatch(text, pat)
    IN  IF m.from = 0 THEN text
        ELSE SubSeq(text, 1, m.from - 1) \o with \o SubSeq(text, m.to + 1, Len(text))

(***************************************************************************)
(* Numbers as text                                                         *)
(***************************************************************************)
DigitChar == [d \in 0..9 |->
    CASE d = 0 -> "0" [] d = 1 -> "1" [] d = 2 -> "2" [] d = 3 -> "3" [] d = 4 -> "4"
      [] d = 5 -> "5" [] d = 6 -> "6" [] d = 7 -> "7" [] d = 8 -> "8" [] d = 9 -> "9"]

DigitValue(c) == CHOOSE d \in 0..9 : DigitChar[d] = c

\* String(n) for a non-negative integer
RECURSIVE toString(_)
toString(n) == IF n < 10 THEN <<DigitChar[n]>> ELSE toString(n \div 10) \o <<DigitChar[n % 10]>>

\* parseInt of a text of digits
RECURSIVE parseInt(_)
parseInt(s) ==
    IF Len(s) = 1 THEN DigitValue(s[1])
    ELSE 10 * parseInt(SubSeq(s, 1, Len(s) - 1)) + DigitValue(s[Len(s)])

\* text.replace(/,/g, '')
stripCommas(s) == SelectSeq(s, LAMBDA c : c # ",")

\* formatNumber: Number.prototype.toLocaleString, en-US grouping
RECURSIVE groupThousands(_)
groupThousands(d) ==
    IF Len(d) <= 3 THEN d
    ELSE groupThousands(SubSeq(d, 1, Len(d) - 3)) \o <<",">> \o SubSeq(d, Len(d) - 2, Len(d))

formatNumber(num) == groupThousands(toString(num))

(***************************************************************************)
(* parseStatistics (update-database-stats.js)                              *)
(***************************************************************************)
\* the label part of each pattern, lower-cased for the i flag
LabelPattern(field) ==
    CASE field = "regions" -> <<Lit(<<"r","e","g","i","o","n">>), Opt(<<"s">>)>>
      [] field = "subregions" ->
           <<Lit(<<"s","u","b">>), Ws(1), Lit(<<"r","e","g","i","o","n">>), Opt(<<"s">>)>>
      [] field = "countries" -> <<Lit(<<"c","o","u","n","t","r","i","e">>), Opt(<<"s">>)>>
      [] field = "states" ->
           <<Lit(<<"s","t","a","t","e">>), Opt(<<"s">>),
             Grp(<<Lit(<<"/","r","e","g","i","o","n">>), Opt(<<"s">>),
                   Lit(<<"/","m","u","n","i","c","i","p","a","l","i","t","i","e">>), Opt(<<"s">>)>>)>>
      [] field = "cities" ->
           <<Lit(<<"c","i","t","i","e">>), Opt(<<"s">>),
             Grp(<<Lit(<<"/","t","o","w","n">>), Opt(<<"s">>),
                   Lit(<<"/","d","i","s","t","r","i","c","t">>), Opt(<<"s">>)>>)>>

\* /Total\s+<label>\s*:\s*(\d+(?:,\d+)*)/i
patternsUnanchored(field) == LabelPattern(field) \o <<Ws(0), Lit(<<":">>), Ws(0), Num>>
patterns(field) ==
    <<Lit(<<"t","o","t","a","l">>), Ws(1)>> \o LabelPattern(field)
        \o <<Ws(0), Lit(<<":">>), Ws(0), Num>>

\* group 1 of a match: the number the match ends with
captured(text, m) ==
    LET before == {i \in m.from..m.to : text[i] \notin (Digit \cup {","})}
    IN  SubSeq(text, (CHOOSE i \in before : \A j \in before : i >= j) + 1, m.to)

parseStatistics(readmeContent) ==
    [f \in Fields |->
        LET m == FirstMatch(toLowerCase(readmeContent), patterns(f))
        IN  IF m.from = 0 THEN -1
            ELSE parseInt(stripCommas(captured(readmeContent, m)))]

(***************************************************************************)
(* updateOverviewFile (update-database-stats.js)                           *)
(* An overview document is a sequence of symbols: single characters, and   *)
(* the fixed texts of the anchors as one symbol each.                      *)
(***************************************************************************)
LastUpdated == "Last Updated: "
DescHead == "description: \"Complete geographical database with "
DescCountries == "+ countries, "
DescStates == "+ states, and "
DescCities == "+ cities in multiple formats\""

ColorOf(field) ==
    CASE field = "regions" -> "blue"
      [] field = "subregions" -> "green"
      [] field = "countries" -> "purple"
      [] field = "states" -> "orange"
      [] field = "cities" -> "red"

\* /<div className="text-2xl font-bold text-<color>-600">\d+(?:,\d+)*<\/div>/
divPattern(color) == <<Lit(<<DivOpen(color)>>), Num, Lit(<<DivClose>>)>>

\* /Last Updated: [^<]+/
datePattern == <<Lit(<<LastUpdated>>), NotLt>>

\* /description: "... with \d+\+ countries, \d+\+ states, and \d+\+ cities ..."/
descPattern ==
    <<Lit(<<DescHead>>), Digs, Lit(<<DescCountries>>), Digs, Lit(<<DescStates>>), Digs,
      Lit(<<DescCities>>)>>

\* getCurrentDate, for the date the clock shows
getCurrentDateByLastDigit(date) ==
    LET day == date.day
        suffix == << <<"t","h">>, <<"s","t">>, <<"n","d">>, <<"r","d">> >>
                    [(IF day % 10 > 3 THEN 0 ELSE day % 10) + 1]
    IN  toString(day) \o suffix \o <<" ", date.month, " ">> \o toString(date.year)
getCurrentDate(date) ==
    LET day == date.day
        suffix == << <<"t","h">>, <<"s","t">>, <<"n","d">>, <<"r","d">> >>
                    [(IF day % 10 > 3 \/ day \div 10 = 1 THEN 0 ELSE day % 10) + 1]
    IN  toString(day) \o suffix \o <<" ", date.month, " ">> \o toString(date.year)

\* one "if (stats.<field> !== null)" block: the content after it
replaceStatEvery(text, field, st) ==
    IF st[field] # -1
    THEN replaceEvery(text, divPattern(ColorOf(field)),
                 <<DivOpen(ColorOf(field))>> \o formatNumber(st[field]) \o <<DivClose>>)
    ELSE text
replaceStat(text, field, st) ==
    IF st[field] # -1
    THEN replace(text, divPattern(ColorOf(field)),
                 <<DivOpen(ColorOf(field))>> \o formatNumber(st[field]) \o <<DivClose>>)
    ELSE text

\* the value of the local variable updated after the five blocks
anyStat(st) == \E f \in Fields : st[f] # -1

\* the frontmatter description, when countries, states and cities are all set
replaceDescriptionNearest(text, st) ==
    IF st["countries"] # -1 /\ st["states"] # -1 /\ st["cities"] # -1
    THEN LET countriesK == (st["countries"] \div 50) * 50
             statesK == ((st["states"] + 250) \div 500) * 500
             citiesK == (st["cities"] \div 1000) * 1000
         IN  replace(text, descPattern,
                     <<DescHead>> \o toString(countriesK) \o <<DescCountries>>
                       \o toString(statesK \div 1000) \o <<"k", DescStates>>
                       \o toString(citiesK \div 1000) \o <<"k", DescCities>>)
    ELSE text
replaceDescription(text, st) ==
    IF st["countries"] # -1 /\ st["states"] # -1 /\ st["cities"] # -1
    THEN LET countriesK == (st["countries"] \div 50) * 50
             statesK == (st["states"] \div 500) * 500
             citiesK == (st["cities"] \div 1000) * 1000
         IN  replace(text, descPattern,
                     <<DescHead>> \o toString(countriesK) \o <<DescCountries>>
                       \o toString(statesK \div 1000) \o <<"k", DescStates>>
                       \o toString(citiesK \div 1000) \o <<"k", DescCities>>)
    ELSE text

\* lines 440-499: the content written back, from the content read
rewrite(text, st, date) ==
    LET c1 == replaceStat(text, "regions", st)
        c2 == replaceStat(c1, "subregions", st)
        c3 == replaceStat(c2, "countries", st)
        c4 == replaceStat(c3, "states", st)
        c5 == replaceStat(c4, "cities", st)
    IN  IF anyStat(st)
        THEN replaceDescription(
                 replace(c5, datePattern, <<LastUpdated>> \o getCurrentDate(date)), st)
        ELSE c5

(***************************************************************************)
(* The overview pipeline: main and updateOverviewFile                      *)
(***************************************************************************)
StatLine(field) ==
    CASE field = "regions" ->
           <<"T","o","t","a","l"," ","R","e","g","i","o","n","s"," ",":"," ","6"," ","<","b","r",">">>
      [] field = "subregions" ->
           <<"T","o","t","a","l"," ","S","u","b"," ","R","e","g","i","o","n","s"," ",":"," ",
             "2","2"," ","<","b","r",">">>
      [] field = "countries" ->
           <<"T","o","t","a","l"," ","C","o","u","n","t","r","i","e","s"," ",":"," ",
             "2","5","0"," ","<","b","r",">">>
      [] field = "states" ->
           <<"T","o","t","a","l"," ","S","t","a","t","e","s","/","R","e","g","i","o","n","s","/",
             "M","u","n","i","c","i","p","a","l","i","t","i","e","s"," ",":"," ",
             "5",",","0","3","8"," ","<","b","r",">">>
      [] field = "cities" ->
           <<"T","o","t","a","l"," ","C","i","t","i","e","s","/","T","o","w","n","s","/",
             "D","i","s","t","r","i","c","t","s"," ",":"," ",
             "1","5","1",",","0","2","4"," ","<","b","r",">">>

FieldOrder == <<"regions", "subregions", "countries", "states", "cities">>

\* a README whose Insights section has the lines of the fields in present
ReadmeWith(present) ==
    join(<< <<"#","#"," ","I","n","s","i","g","h","t","s">> >>
         \o [i \in 1..Len(SelectSeq(FieldOrder, LAMBDA f : f \in present)) |->
                StatLine(SelectSeq(FieldOrder, LAMBDA f : f \in present)[i])])

\* no line, one line, all lines but one, all lines
Readmes == {ReadmeWith(present) :
              present \in {S \in SUBSET Fields : Cardinality(S) \in {0, 1, 4, 5}}}

\* the pieces overview documents are put together from
Pieces == {
    <<DivOpen("blue"), "5", DivClose>>,
    <<DivOpen("green"), "2", "1", DivClose>>,
    <<DivOpen("purple"), "2", "4", "7", DivClose>>,
    <<DivOpen("orange"), "4", ",", "9", "6", "3", DivClose>>,
    <<DivOpen("red"), "9", ",", "0", "0", "0", DivClose>>,
    <<DivOpen("blue"), "N", "/", "A", DivClose>>,
    <<LastUpdated, "1", "s", "t", " ", "May", " ", "2", "0", "2", "5">>,
    <<LastUpdated>>,
    <<"x">>,
    <<DescHead, "2", "0", "0", DescCountries, "4", "0", "0", "0", DescStates,
      "1", "0", "0", "0", "0", "0", DescCities>> }

RECURSIVE concat(_)
concat(ps) == IF ps = <<>> THEN <<>> ELSE Head(ps) \o concat(Tail(ps))

Docs == {concat(ps) : ps \in SeqsUpTo(Pieces, MaxPieces)}

Dates == {[day |-> 21, month |-> "September", year |-> 2025]}

InitOverview ==
    /\ pc = "start" /\ exitCode = -1 /\ ops = <<>> /\ runs = 1 /\ error = "none"
    /\ readme \in Readmes
    /\ overview \in Docs
    /\ today \in Dates
    /\ stats = NoStats /\ content = <<>> /\ updated = FALSE
    /\ atStart = [overview |-> overview, rewritten |-> FALSE]
    /\ body = <<>> /\ parsed = NotParsed
    /\ GITHUB_TOKEN = FALSE /\ remote = <<>> /\ releases = <<>>
    /\ changelog = Absent /\ backup = Absent

\* lines 516-520 and 345-365: main up to its await, with the request sent
OvStart ==
    /\ pc = "start"
    /\ ops' = Append(ops, "request")
    /\ pc' = "awaiting"
    /\ UNCHANGED <<exitCode, error, atStart, runs, vParse, vChangelog, vOverview>>

\* lines 354-356 and 520-541: status 200; parse; return when nothing was
\* found, else call updateOverviewFile, which starts reading the file
OvFetchResolveFails ==
    /\ pc = "awaiting"
    /\ stats' = parseStatistics(readme)
    /\ IF ~anyStat(stats')
       THEN pc' = "exited" /\ exitCode' = 1 /\ UNCHANGED ops
       ELSE pc' = "reading" /\ ops' = Append(ops, "readFile") /\ UNCHANGED exitCode
    /\ UNCHANGED <<error, atStart, runs, vParse, vChangelog, readme, overview, content,
                   updated, today>>
OvFetchResolve ==
    /\ pc = "awaiting"
    /\ stats' = parseStatistics(readme)
    /\ IF Cardinality({f \in Fields : stats'[f] # -1}) = 0
       THEN pc' = "exited" /\ exitCode' = 0 /\ UNCHANGED ops
       ELSE pc' = "reading" /\ ops' = Append(ops, "readFile") /\ UNCHANGED exitCode
    /\ UNCHANGED <<error, atStart, runs, vParse, vChangelog, readme, overview, content,
                   updated, today>>

\* lines 357-363 and 550-553: another status, or a connection error; main's
\* catch clause ends the process
OvFetchReject ==
    /\ pc = "awaiting"
    /\ \E reason \in {"connection", "status"} : error' = reason
    /\ pc' = "exited" /\ exitCode' = 1
    /\ UNCHANGED <<ops, atStart, runs, vParse, vChangelog, vOverview>>

\* updateOverviewFile called by another module (it is exported) with a
\* StatRecord that has no field set
CallUpdateOverviewFile ==
    /\ pc = "start"
    /\ stats' = NoStats
    /\ ops' = Append(ops, "readFile")
    /\ pc' = "reading"
    /\ UNCHANGED <<exitCode, error, atStart, runs, vParse, vChangelog, readme, overview,
                   content, updated, today>>

\* lines 437-507: the file is read; the replacements; the write is started
\* when updated, else false is returned and the process ends
OvReadResolve ==
    /\ pc = "reading"
    /\ content' = rewrite(overview, stats, today)
    /\ updated' = anyStat(stats)
    /\ IF updated'
       THEN pc' = "writing" /\ ops' = Append(ops, "writeFile") /\ UNCHANGED exitCode
       ELSE pc' = "exited" /\ exitCode' = 0 /\ UNCHANGED ops
    /\ UNCHANGED <<error, atStart, runs, vParse, vChangelog, readme, stats, overview, today>>

\* line 437 rejecting; lines 508-510 and 550-553
OvReadReject ==
    /\ pc = "reading"
    /\ error' = "read"
    /\ pc' = "exited" /\ exitCode' = 1
    /\ UNCHANGED <<ops, atStart, runs, vParse, vChangelog, vOverview>>

\* lines 501-507 and 543-549: the write is done; true is returned
OvWriteResolve ==
    /\ pc = "writing"
    /\ overview' = content
    /\ pc' = "exited"
    /\ exitCode' = 0
    /\ UNCHANGED <<ops, error, atStart, runs, vParse, vChangelog, readme, stats, content,
                   updated, today>>

\* line 501 rejecting; lines 508-510 and 550-553
OvWriteReject ==
    /\ pc = "writing"
    /\ error' = "write"
    /\ pc' = "exited" /\ exitCode' = 1
    /\ UNCHANGED <<ops, atStart, runs, vParse, vChangelog, vOverview>>

\* the operator runs the script again, the same day, on an unchanged README
OvRerun ==
    /\ pc = "exited"
    /\ pc' = "start" /\ exitCode' = -1 /\ ops' = <<>> /\ error' = "none"
    /\ stats' = NoStats /\ content' = <<>> /\ updated' = FALSE
    /\ atStart' = [overview |-> overview, rewritten |-> (exitCode = 0 /\ updated)]
    /\ UNCHANGED <<runs, vParse, vChangelog, readme, overview, today>>

NextOverview ==
    \/ OvStart
    \/ OvFetchResolve
    \/ OvFetchReject
    \/ CallUpdateOverviewFile
    \/ OvReadResolve
    \/ OvReadReject
    \/ OvWriteResolve
    \/ OvWriteReject
    \/ OvRerun

SpecOverview == InitOverview /\ [][NextOverview]_vars

(***************************************************************************)
(* Claims about the overview pipeline and rewrite                          *)
(***************************************************************************)
RECURSIVE Ascending(_)
Ascending(S) ==
    IF S = {} THEN <<>>
    ELSE LET low == CHOOSE i \in S : \A j \in S : i <= j
         IN  <<low>> \o Ascending(S \ {low})

\* the texts between the opening and closing tag of the containers of one
\* colour, in document order
AnchorsOf(doc, color) ==
    LET opens == Ascending({i \in 1..Len(doc) : doc[i] = DivOpen(color)})
    IN  [k \in 1..Len(opens) |->
            LET closes == {j \in opens[k]..Len(doc) : doc[j] = DivClose}
            IN  SubSeq(doc, opens[k] + 1,
                       (CHOOSE j \in closes : \A l \in closes : j <= l) - 1)]

\* a number with optional thousands separators
IsNumberText(t) ==
    /\ t # <<>>
    /\ \A i \in 1..Len(t) : t[i] \in Digit \cup {","}
    /\ t[1] \in Digit /\ t[Len(t)] \in Digit
    /\ \A i \in 1..(Len(t) - 1) : ~(t[i] = "," /\ t[i + 1] = ",")

\* the first container of a colour that holds a number, 0 when none does
FirstAnchor(doc, color) ==
    LET ok == {k \in 1..Len(AnchorsOf(doc, color)) : IsNumberText(AnchorsOf(doc, color)[k])}
    IN  IF ok = {} THEN 0 ELSE CHOOSE k \in ok : \A l \in ok : k <= l

\* a document with the replaceable part of every anchor left out: the
\* number of a container, the text after "Last Updated: " up to the next
\* "<", and the figures of a description line
RECURSIVE Frame(_)
Frame(doc) ==
    IF doc = <<>> THEN <<>>
    ELSE LET h == Head(doc)
             closes == {j \in 1..Len(doc) : doc[j] = DivClose}
             ends == {j \in 1..Len(doc) : doc[j] = DescCities}
         IN  IF h \in {DivOpen(c) : c \in Colors} /\ closes # {}
             THEN <<h, DivClose>>
                  \o Frame(SubSeq(doc, (CHOOSE j \in closes : \A l \in closes : j <= l) + 1,
                                  Len(doc)))
             ELSE IF h = LastUpdated /\ RunOut(doc, 2, LtSymbols) > 0
             THEN <<h>> \o Frame(SubSeq(doc, 2 + RunOut(doc, 2, LtSymbols), Len(doc)))
             ELSE IF h = DescHead /\ ends # {}
             THEN <<h>>
                  \o Frame(SubSeq(doc, (CHOOSE j \in ends : \A l \in ends : j <= l) + 1,
                                  Len(doc)))
             ELSE <<h>> \o Frame(Tail(doc))

\* updateOverviewFile has computed the content it is about to write
Rewritten == pc = "writing"

\* C7: a run whose README matches none of the five patterns (main has
\* parsed it into a record with no field set) ends with exit code 0 and has
\* not written overview.mdx, which is as it was.
C7_NothingFoundNoWrite ==
    (pc = "exited" /\ error = "none" /\ ops # <<>> /\ ops[1] = "request"
        /\ ~anyStat(stats))
      => /\ exitCode = 0
         /\ overview = atStart.overview
         /\ \A i \in 1..Len(ops) : ops[i] # "writeFile"

\* a README without statistics was fetched for a document that has an anchor
C7_Witness ==
    /\ pc = "exited" /\ exitCode = 0
    /\ ops = <<"request">>
    /\ parseStatistics(readme) = NoStats
    /\ FirstAnchor(overview, "blue") = 1

\* a statistic is set and the document holds its anchor
FieldUpdated(doc, st, f) == st[f] # -1 /\ FirstAnchor(doc, ColorOf(f)) # 0

\* C8, as claimed: updateOverviewFile replaces the date and writes the file
\* exactly when at least one of the five fields was updated in the
\* document; when none was, the document is unmodified and false returned.
C8_AsClaimed ==
    (pc \in {"writing", "exited"} /\ error = "none" /\ "readFile" \in Range(ops))
      => LET some == \E f \in Fields : FieldUpdated(atStart.overview, stats, f)
         IN  /\ updated <=> some
             /\ ("writeFile" \in Range(ops)) <=> some
             /\ (~some /\ pc = "exited") => overview = atStart.overview

C10_AsClaimed ==
    (Rewritten /\ atStart.rewritten) => content = overview

(***************************************************************************)
(* parseStatistics, updateOverviewFile and getCurrentDate called on their  *)
(* own (the first two are exported), over inputs the pipeline's READMEs    *)
(* and clock do not reach                                                  *)
(***************************************************************************)
\* a statistic line with a short label, lower case, no blanks at the colon
CompactLine(field) ==
    CASE field = "regions" ->
           <<"t","o","t","a","l"," ","r","e","g","i","o","n","s",":","1",",","2","3","4">>
      [] field = "subregions" ->
           <<"t","o","t","a","l"," ","s","u","b"," ","r","e","g","i","o","n","s",":",
             "1",",","2","3","4">>
      [] field = "countries" ->
           <<"t","o","t","a","l"," ","c","o","u","n","t","r","i","e","s",":","1",",","2","3","4">>
      [] field = "states" ->
           <<"t","o","t","a","l"," ","s","t","a","t","e","s",":","1",",","2","3","4">>
      [] field = "cities" ->
           <<"t","o","t","a","l"," ","c","i","t","i","e","s",":","1",",","2","3","4">>

\* the line of the README format with "N/A" where the number stands
NoNumberLine(field) ==
    LET l == StatLine(field)
        colon == CHOOSE i \in 1..Len(l) : l[i] = ":"
    IN  SubSeq(l, 1, colon) \o <<" ", "N", "/", "A">>

LineKinds == {"none", "standard", "compact", "nonumber"}

StatLineOfKind(field, kind) ==
    CASE kind = "standard" -> StatLine(field)
      [] kind = "compact" -> CompactLine(field)
      [] kind = "nonumber" -> NoNumberLine(field)

\* a README with, for each field, no line or a line of the kind chosen
ReadmeOf(choice) ==
    LET fs == SelectSeq(FieldOrder, LAMBDA f : choice[f] # "none")
    IN  join(<< <<"#","#"," ","I","n","s","i","g","h","t","s">> >>
             \o [i \in 1..Len(fs) |-> StatLineOfKind(fs[i], choice[fs[i]])])

StatReadmes == {ReadmeOf(choice) : choice \in [Fields -> LineKinds]}

DefaultDate == [day |-> 21, month |-> "September", year |-> 2025]

\* StatRecords handed to updateOverviewFile: any states count up to
\* MaxStates, or none, with or without countries and cities
StatRecords ==
    {[regions |-> -1, subregions |-> -1, countries |-> c, states |-> s, cities |-> t] :
        c \in {-1, 249}, s \in -1..MaxStates, t \in {-1, 151024}}

\* overview documents with a description line of the template
DescDocs == {
    <<DescHead, "2", "0", "0", DescCountries, "4", "0", "0", "0", DescStates,
      "1", "0", "0", "0", "0", "0", DescCities>>,
    <<DescHead, "2", "0", "0", DescCountries, "4", "0", "0", "0", DescStates,
      "1", "0", "0", "0", "0", "0", DescCities, "\n",
      LastUpdated, "1", "s", "t", " ", "May", " ", "2", "0", "2", "5", "<">> }

MonthLength ==
    [m \in {"January", "February", "September"} |->
        CASE m = "January" -> 31 [] m = "February" -> 28 [] m = "September" -> 30]

\* the dates the clock may show: every day of three months
CalendarDates ==
    {date \in [day : 1..31, month : DOMAIN MonthLength, year : {2025}] :
        date.day <= MonthLength[date.month]}

InitStats ==
    /\ exitCode = -1 /\ ops = <<>> /\ runs = 0 /\ error = "none"
    /\ body = <<>> /\ parsed = NotParsed
    /\ GITHUB_TOKEN = FALSE /\ remote = <<>> /\ releases = <<>>
    /\ changelog = Absent /\ backup = Absent
    /\ content = <<>> /\ updated = FALSE
    /\ \/ /\ pc = "parseStatistics"
          /\ readme \in StatReadmes
          /\ stats = NoStats /\ overview = <<>> /\ today = DefaultDate
       \/ /\ pc = "updateOverviewFile"
          /\ stats \in StatRecords
          /\ overview \in DescDocs
          /\ readme = <<>> /\ today = DefaultDate
       \/ /\ pc = "getCurrentDate"
          /\ today \in CalendarDates
          /\ readme = <<>> /\ stats = NoStats /\ overview = <<>>
    /\ atStart = [overview |-> overview, rewritten |-> FALSE]

\* a call of parseStatistics(readme)
ParseStatistics ==
    /\ pc = "parseStatistics"
    /\ stats' = parseStatistics(readme)
    /\ pc' = "returned"
    /\ ops' = <<"parseStatistics">>
    /\ UNCHANGED <<exitCode, error, atStart, runs, vParse, vChangelog, readme, overview,
                   content, updated, today>>

\* a call of updateOverviewFile(stats) in which the read and the write
\* succeed
UpdateOverviewFile ==
    /\ pc = "updateOverviewFile"
    /\ content' = rewrite(overview, stats, today)
    /\ updated' = anyStat(stats)
    /\ overview' = IF updated' THEN content' ELSE overview
    /\ pc' = "returned"
    /\ ops' = IF updated' THEN <<"updateOverviewFile", "readFile", "writeFile">>
              ELSE <<"updateOverviewFile", "readFile">>
    /\ UNCHANGED <<exitCode, error, atStart, runs, vParse, vChangelog, readme, stats, today>>

\* a call of getCurrentDate() on the day the clock shows; the text returned
\* is kept in content
GetCurrentDate ==
    /\ pc = "getCurrentDate"
    /\ content' = getCurrentDate(today)
    /\ pc' = "returned"
    /\ ops' = <<"getCurrentDate">>
    /\ UNCHANGED <<exitCode, error, atStart, runs, vParse, vChangelog, readme, stats, overview,
                   updated, today>>

NextStats ==
    \/ ParseStatistics
    \/ UpdateOverviewFile
    \/ GetCurrentDate

SpecStats == InitStats /\ [][NextStats]_vars

(***************************************************************************)
(* Claims about the statistics functions                                   *)
(***************************************************************************)
\* the number on the line of the README format for a field
StatValue(field) ==
    CASE field = "regions" -> 6
      [] field = "subregions" -> 22
      [] field = "countries" -> 250
      [] field = "states" -> 5038
      [] field = "cities" -> 151024

\* the number on the field's own "Total <Label> : <number>" line of a
\* README, thousands separators removed, or -1 when it has no such line
OwnValue(text, field) ==
    IF StatLine(field) \in Range(split(text)) THEN StatValue(field)
    ELSE IF CompactLine(field) \in Range(split(text)) THEN 1234
    ELSE -1

\* C11: parseStatistics sets a field exactly when the README has that
\* field's own line with a number, whatever lines the other four fields
\* have, and to that number without its thousands separators; a README
\* with a "Total Sub Regions" line and no "Total Regions" line leaves
\* regions unset.
C11_EachFieldFromOwnLine ==
    (pc = "returned" /\ ops = <<"parseStatistics">>)
      => \A f \in Fields : stats[f] = OwnValue(readme, f)

\* a "Total Sub Regions" line without a "Total Regions" line, next to a
\* number with a thousands separator and a line without a number
C11_Witness ==
    /\ pc = "returned" /\ ops = <<"parseStatistics">>
    /\ stats.subregions = 22 /\ stats.regions = -1
    /\ stats.states = 5038
    /\ stats.cities = -1
    /\ NoNumberLine("cities") \in Range(split(readme))
    /\ StatLine("subregions") \in Range(split(readme))

\* the description line of a document: from its head to the end of the
\* template
DescriptionOf(doc) ==
    LET head == CHOOSE i \in 1..Len(doc) : doc[i] = DescHead
        ends == {j \in head..Len(doc) : doc[j] = DescCities}
    IN  SubSeq(doc, head, CHOOSE j \in ends : \A k \in ends : j <= k)

AllThreePresent(st) == st.countries # -1 /\ st.states # -1 /\ st.cities # -1

\* a call of updateOverviewFile has returned
OverviewUpdated == pc = "returned" /\ ops # <<>> /\ ops[1] = "updateOverviewFile"

\* C15: the description line is rewritten only when countries, states and
\* cities are all present, and then reads: countries rounded down to a
\* multiple of 50, floor(states / 1000) followed by "k", floor(cities /
\* 1000) followed by "k"; the code's rounding of states to a multiple of
\* 500 before the division by 1000 gives floor(states / 1000) for every
\* states count.
C15_DescriptionRounding ==
    OverviewUpdated =>
        IF AllThreePresent(stats)
        THEN DescriptionOf(overview)
               = <<DescHead>> \o toString(stats.countries - (stats.countries % 50))
                   \o <<DescCountries>> \o toString(stats.states \div 1000)
                   \o <<"k", DescStates>> \o toString(stats.cities \div 1000)
                   \o <<"k", DescCities>>
        ELSE DescriptionOf(overview) = DescriptionOf(atStart.overview)

\* 1999 states: rounded down to 1500 and divided by 1000, written as 1k
C15_Witness ==
    /\ OverviewUpdated
    /\ AllThreePresent(stats)
    /\ stats.states = 1999
    /\ DescriptionOf(overview)
         = <<DescHead, "2", "0", "0", DescCountries, "1", "k", DescStates,
             "1", "5", "1", "k", DescCities>>
    /\ overview # atStart.overview

\* the English ordinal suffix of a day of the month
OrdinalSuffix(day) ==
    IF day \in {1, 21, 31} THEN <<"s", "t">>
    ELSE IF day \in {2, 22} THEN <<"n", "d">>
    ELSE IF day \in {3, 23} THEN <<"r", "d">>
    ELSE <<"t", "h">>

\* C16: for every day of the month from 1 to 31 the date text is the day
\* followed by "st" for 1, 21 and 31, "nd" for 2 and 22, "rd" for 3 and 23
\* and "th" for every other day, 11, 12 and 13 among them, then the month
\* and the year.
C16_OrdinalSuffix ==
    (pc = "returned" /\ ops = <<"getCurrentDate">>)
      => content = toString(today.day) \o OrdinalSuffix(today.day)
                     \o <<" ", today.month, " ">> \o toString(today.year)

\* getCurrentDate returned "11th January 2025"
C16_Witness ==
    /\ pc = "returned" /\ ops = <<"getCurrentDate">>
    /\ today.day = 11
    /\ content = <<"1", "1", "t", "h", " ", "January", " ", "2", "0", "2", "5">>

====
